---- MODULE Spec2Model ----
(***************************************************************************)
(* A model of flask_playground's scoped temporary-file store               *)
(* (src/src/flask_playground/file_store.py): the directory sandbox, the    *)
(* sqlite file index, exclusive file creation and the expiry sweep.        *)
(*                                                                         *)
(* Strings that are paths are modelled as the sequence of their            *)
(* "/"-separated components, i.e. as  path.split("/") : the string "a/b"   *)
(* is <<"a","b">>, "/a" is <<"","a">>, "" is <<"">> and "/" is <<"","">>.  *)
(* split and join are inverse to each other, so nothing is lost.           *)
(***************************************************************************)
EXTENDS Integers, Sequences, FiniteSets, TLC

(***************************************************************************)
(* Bounds of the model.                                                    *)
(***************************************************************************)
\* longest directory string (in components) given to FileStore(...)
MaxDirLen == 4
\* how often the clock advances
MaxTicks == 1
\* how many threads call FileStore.open at the same time
NumCallers == 2
\* how many times one thread calls FileStore.open, one call after the other
MaxOpens == 2

\* how many times the application asks for the FileStore service
MaxSetups == 2

\* how many Timer objects the cleaner creates, the first one included
MaxTimers == 3

\* how many times one PizzaStore opens a connection
MaxConnects == 2

\* rows_to_write: how many orders each writer thread saves
RowsToWrite == 2

\* how many orders are saved to the sales table
MaxOrders == 3

\* how many session lengths the clock of the login session runs through
MaxStarts == 2

MaxSessions == 2

\* _constants.py: the seconds a login session lasts
SESSION_LENGTH_SECONDS == 300

\* timer.join(5.0): the seconds _end_timers waits for a timer thread
JOIN_TIMEOUT == 5

(***************************************************************************)
(* Program constants.                                                      *)
(***************************************************************************)
\* file_store.py:137  (self._max_file_age_hours * 3600)
SecondsPerHour == 3600

\* _constants.py:8  DOWNLOAD_DIRECTORY = "download_files"
DOWNLOAD_DIRECTORY == <<"download_files">>

\* file_store.py:40  self.root = os.getcwd(): an absolute, normalised path
Root == <<"", "srv">>

(***************************************************************************)
(* posixpath / os.path as used by file_store.py                            *)
(***************************************************************************)
Last(s) == s[Len(s)]

Front(s) == SubSeq(s, 1, Len(s) - 1)

\* os.path.isabs(directory): the string starts with "/"
isabs(p) == Len(p) >= 2 /\ p[1] = ""

\* directory.startswith("../")
StartsWithDotDotSlash(p) == Len(p) >= 2 /\ p[1] = ".."

\* posixpath.normpath: 0, 1 or 2 leading slashes are kept ("//x" keeps two,
\* "///x" keeps one)
InitialSlashes(p) ==
    IF ~isabs(p) THEN 0
    ELSE IF Len(p) >= 3 /\ p[2] = "" /\ ~(Len(p) >= 4 /\ p[3] = "") THEN 2
    ELSE 1

\* posixpath.normpath's loop over path.split("/"): new_comps after the
\* components i..Len(comps) have been consumed
RECURSIVE NormComps(_, _, _, _)
NormComps(comps, i, new_comps, slashes) ==
    IF i > Len(comps) THEN new_comps
    ELSE LET comp == comps[i] IN
         IF comp \in {"", "."}
           THEN NormComps(comps, i + 1, new_comps, slashes)
         ELSE IF comp # ".."
                 \/ (slashes = 0 /\ new_comps = <<>>)
                 \/ (new_comps # <<>> /\ Last(new_comps) = "..")
           THEN NormComps(comps, i + 1, Append(new_comps, comp), slashes)
         ELSE IF new_comps # <<>>
           THEN NormComps(comps, i + 1, Front(new_comps), slashes)
         ELSE NormComps(comps, i + 1, new_comps, slashes)

\* posixpath.normpath(path)
normpath(path) ==
    LET slashes == InitialSlashes(path)
        comps   == NormComps(path, 1, <<>>, slashes)
        joined  == IF comps = <<>> THEN <<"">> ELSE comps
        full    == IF slashes = 0 THEN joined
                   ELSE IF slashes = 1 THEN <<"">> \o joined
                   ELSE <<"", "">> \o joined
    IN  IF full = <<"">> THEN <<".">> ELSE full

\* posixpath.join(a, b) / os.path.join(a, b)
join(a, b) ==
    IF isabs(b) THEN b
    ELSE IF Last(a) = "" THEN Front(a) \o b
    ELSE a \o b

\* The directory entry a path names when the kernel walks it from "/":
\* "" and "." stay, ".." goes up (and stays at "/"), a name goes down.
RECURSIVE Walk(_, _, _)
Walk(comps, i, at) ==
    IF i > Len(comps) THEN at
    ELSE IF comps[i] \in {"", "."} THEN Walk(comps, i + 1, at)
    ELSE IF comps[i] = ".." THEN
         Walk(comps, i + 1, IF at = <<>> THEN at ELSE Front(at))
    ELSE Walk(comps, i + 1, Append(at, comps[i]))

Location(path) == Walk(path, 1, <<>>)

\* loc lies in the subtree below the directory at dirloc
Below(loc, dirloc) ==
    /\ Len(loc) > Len(dirloc)
    /\ SubSeq(loc, 1, Len(dirloc)) = dirloc

(***************************************************************************)
(* FileStore.__init__ / _assemble_directory                                *)
(***************************************************************************)
\* the check of _assemble_directory on the normalised directory
UnsafeDirectory(directory) ==
    \/ directory = <<".">>
    \/ directory = <<"..">>
    \/ StartsWithDotDotSlash(directory)
    \/ isabs(directory)

\* _assemble_directory with the check made on the directory as given, not on
\* its normalised form
assemble_directory_unnormalised(directory) ==
    IF UnsafeDirectory(directory) THEN <<>> ELSE join(Root, normpath(directory))

\* _assemble_directory(directory): <<>> stands for "raise ValueError"
assemble_directory(directory) ==
    LET norm == normpath(directory) IN
    IF UnsafeDirectory(norm) THEN <<>> ELSE join(Root, norm)

(***************************************************************************)
(* State                                                                   *)
(***************************************************************************)
VARIABLES
    directory,       \* the directory string given to FileStore(directory)
    constructed,     \* "new", "ok" or "ValueError": how __init__ ended
    file_directory,  \* self.file_directory (<<>> until constructed)
    maxAge,          \* self._max_file_age_hours
    now,             \* int(time.time()), seconds
    dirExists,       \* the managed directory exists on disk
    table,           \* the .index database holds the fileindex table
    disk,            \* location -> data, for every file on disk
    index,           \* the rows of fileindex: [filename, expires_at]
    calls,           \* how many open calls each caller has started
    pc,              \* where each caller of FileStore.open stands
    fname,           \* open's argument filename, per caller
    outcome,         \* how each caller's last open call ended
    expires,         \* _save_to_index's local `expires`, per caller
    attached,        \* the caller's file handle still names the file on disk
    spc,             \* where each removed_expired call stands
    snow,            \* _get_expired's local `now`, per sweep
    to_remove,       \* removed_expired's local to_remove, per sweep
    pending,         \* the part of to_remove the for loop has not reached
    sout,            \* how each sweeper's last removed_expired call ended
    missed,          \* the running sweep caught a FileNotFoundError
    setups,          \* how many times _filestore_factory has run setup
    setupOut,        \* how the last setup call ended
    setupOnFiles,    \* the last setup of the factory found records and files
    hpc,             \* where the health_check call stands
    hout,            \* how the last health_check call ended
    dout,            \* how the last INSERT run straight on the index ended
    timers,          \* timers["files"]: the Timer the dictionary holds
    timerState,      \* what the thread of each Timer is doing
    cancelled,       \* the finished event of each Timer is set
    stopPc,          \* where _end_timers stands
    held,            \* the Timer the for loop of _end_timers works on
    waited,          \* the seconds timer.join has waited so far
    rpc,             \* where the _report request stands
    file_name,       \* the file_name the _report request has built
    rout,            \* how the last _report request ended
    conn,            \* PizzaStore._connection of each thread's store
    opened,          \* how many connections each store has opened
    pout,            \* how the last PizzaStore call of each thread ended
    ppc,             \* where the save_orders call of each thread stands
    saved,           \* how many save_order calls each thread has finished
    write_lock,      \* the thread that holds PizzaStore._write_lock
    dbLock,          \* the thread whose connection has an open write
    sales,           \* the rows committed to the sales table
    prior,           \* the rows of the sales table before the writers ran
    orders,          \* the rows of the sales table, in the order of ROWID
    row_count,       \* the row_count of the last get_recent call
    results,         \* the ROWIDs the last get_recent call returned
    clock,           \* int(time.time()) as the request handlers read it
    usersession,     \* flask.session["usersession"]: <<granted_at>>, or <<>>
    return_url,      \* flask.session["return_url"], or <<>>
    response,        \* what the last request was answered with
    started,         \* os.environ has APP_TIMERS_STARTED
    starts           \* the calls of _start_timers so far

dirVars == <<directory, constructed, file_directory>>

envVars == <<maxAge, now, dirExists, table>>

callerVars == <<calls, pc, fname, outcome, expires, attached>>

sweepVars == <<spc, snow, to_remove, pending, sout, missed>>

\* the file store itself, its callers and its sweeps
storeVars == <<dirVars, envVars, disk, index, callerVars, sweepVars>>

healthVars == <<hpc, hout>>

\* the application around the store
factoryVars == <<setups, setupOut, setupOnFiles>>

cleanerVars == <<timers, timerState, cancelled, stopPc, held, waited>>

reportVars == <<rpc, file_name, rout>>

pizzaVars ==
    <<conn, opened, pout, ppc, saved, write_lock, dbLock, sales, prior>>

\* what lies outside the file store and the application's use of it
recentVars == <<orders, row_count, results>>

authVars == <<clock, usersession, return_url, response>>

\* the process environment that _start_timers reads and writes
startVars == <<started, starts>>

otherVars == <<pizzaVars, recentVars, authVars, startVars>>

\* the file store and the application's use of it
fileVars ==
    <<storeVars, factoryVars, healthVars, dout, cleanerVars, reportVars>>

\* all but the variables of the PizzaStore connections and writers
notPizzaVars == <<fileVars, recentVars, authVars, startVars>>

\* all but the variables of the sales table's rows
notRecentVars == <<fileVars, pizzaVars, authVars, startVars>>

\* all but the variables of the login session
notAuthVars == <<fileVars, pizzaVars, recentVars, startVars>>

appVars ==
    <<factoryVars, healthVars, dout, cleanerVars, reportVars, otherVars>>

vars == <<storeVars, appVars>>

\* the threads calling FileStore.open (tests/file_store_test.py: _writer)
Callers == 1..NumCallers

\* the one thread that makes its open calls one after the other
\* (tests/file_store_test.py: the for loop of _writer)
Handler == 1

\* the threads calling removed_expired (app_constructor.py: _file_cleaner)
Sweepers == {"cleaner"}

\* a caller of removed_expired other than the cleaner
SweepCaller == "caller"

\* every thread that may call removed_expired
Sweeping == Sweepers \cup {SweepCaller}

\* the filenames the callers pass to FileStore.open
FileNames == {<<"foo">>, <<"bar">>, <<"..", "foo">>, <<"", "tmp", "foo">>}

\* the filenames the concurrent writers pass to FileStore.open
WriterNames == {<<"foo">>, <<"bar">>, <<"baz">>}

\* the components the directory strings given to FileStore are made of
DirComps == {"", ".", "..", "foo", "bar", "baz"}

DirInputs == UNION {[1..n -> DirComps] : n \in 1..MaxDirLen}

AgeChoices == {0, 1}

\* data of a file that was created and not yet written
Empty == "empty"

\* data of a file its caller has written
Data == "written"

(***************************************************************************)
(* The file system                                                         *)
(***************************************************************************)
Exists(loc) == loc \in DOMAIN disk

\* open(file, "w"): create the file, or truncate the one that is there
Truncated(d, loc) ==
    [l \in DOMAIN d \cup {loc} |-> IF l = loc THEN Empty ELSE d[l]]

Written(d, loc, data) ==
    [l \in DOMAIN d |-> IF l = loc THEN data ELSE d[l]]

Unlinked(d, loc) == [l \in DOMAIN d \ {loc} |-> d[l]]

\* the handles that stay attached when the file at loc is unlinked
Detach(loc) ==
    [t \in Callers |->
        attached[t] /\ Location(join(file_directory, fname[t])) # loc]

DirLocation == Location(file_directory)

\* the directory a new file at loc is to be entered in exists
ParentExists(loc) == Below(loc, DirLocation) => dirExists

(***************************************************************************)
(* FileStore.__init__                                                      *)
(***************************************************************************)
FileStore_init ==
    /\ constructed = "new"
    /\ file_directory' = assemble_directory(directory)
    /\ constructed' = IF assemble_directory(directory) = <<>>
                        THEN "ValueError" ELSE "ok"
    /\ UNCHANGED <<appVars, directory, envVars, disk, index, callerVars,
                   sweepVars>>

(***************************************************************************)
(* FileStore.setup                                                         *)
(***************************************************************************)
\* setup that builds the index database anew instead of keeping the one
\* that is there
setup_store_recreate ==
    /\ constructed = "ok"
    /\ dirExists' = TRUE
    /\ table' = TRUE
    /\ index' = {}
    /\ setupOut' = "ok"
    /\ UNCHANGED <<dirVars, maxAge, now, disk, callerVars, sweepVars>>

\* lines 77-78: os.makedirs(exist_ok=True) and CREATE TABLE IF NOT EXISTS:
\* neither raises when the directory or the table is there already
setup_store ==
    /\ constructed = "ok"
    /\ dirExists' = TRUE
    /\ table' = TRUE
    /\ setupOut' = "ok"
    /\ UNCHANGED <<dirVars, maxAge, now, disk, index, callerVars, sweepVars>>

setup ==
    /\ setup_store
    /\ UNCHANGED <<otherVars, reportVars, setups, setupOnFiles, healthVars, dout, cleanerVars>>

\* _filestore_factory: the application builds FileStore(DOWNLOAD_DIRECTORY)
\* and sets it up each time the service is asked for; teardown does nothing
filestore_factory ==
    /\ setups < MaxSetups
    /\ setups' = setups + 1
    /\ setupOnFiles' = (dirExists /\ table /\ index # {} /\ disk # <<>>)
    /\ setup_store
    /\ UNCHANGED <<otherVars, reportVars, healthVars, dout, cleanerVars>>

(***************************************************************************)
(* FileStore.open, step by step                                            *)
(***************************************************************************)
\* open without the test of lines 68-69: an existing file is opened again
open_check_no_raise(t, f) ==
    /\ constructed = "ok"
    /\ pc[t] = "idle"
    /\ calls[t] < MaxOpens
    /\ calls' = [calls EXCEPT ![t] = @ + 1]
    /\ fname' = [fname EXCEPT ![t] = f]
    /\ outcome' = [outcome EXCEPT ![t] = "none"]
    /\ pc' = [pc EXCEPT ![t] = "checked"]
    /\ UNCHANGED <<appVars, dirVars, envVars, disk, index, expires, attached, sweepVars>>

\* open with line 68 testing the managed directory instead of the file
open_check_directory(t, f) ==
    /\ constructed = "ok"
    /\ pc[t] = "idle"
    /\ calls[t] < MaxOpens
    /\ calls' = [calls EXCEPT ![t] = @ + 1]
    /\ fname' = [fname EXCEPT ![t] = f]
    /\ IF dirExists
         THEN /\ outcome' = [outcome EXCEPT ![t] = "FileExistsError"]
              /\ pc' = pc
         ELSE /\ outcome' = [outcome EXCEPT ![t] = "none"]
              /\ pc' = [pc EXCEPT ![t] = "checked"]
    /\ UNCHANGED <<appVars, dirVars, envVars, disk, index, expires, attached, sweepVars>>

\* lines 67-69: os.path.exists(file) and the raise
open_check(t, f) ==
    /\ constructed = "ok"
    /\ pc[t] = "idle"
    /\ calls[t] < MaxOpens
    /\ calls' = [calls EXCEPT ![t] = @ + 1]
    /\ fname' = [fname EXCEPT ![t] = f]
    /\ IF Exists(Location(join(file_directory, f)))
         THEN /\ outcome' = [outcome EXCEPT ![t] = "FileExistsError"]
              /\ pc' = pc
         ELSE /\ outcome' = [outcome EXCEPT ![t] = "none"]
              /\ pc' = [pc EXCEPT ![t] = "checked"]
    /\ UNCHANGED <<appVars, dirVars, envVars, disk, index, expires, attached, sweepVars>>

\* line 71: open(file, mode="w")
open_create(t) ==
    LET loc == Location(join(file_directory, fname[t])) IN
    /\ pc[t] = "checked"
    /\ IF ParentExists(loc)
         THEN /\ disk' = Truncated(disk, loc)
              /\ attached' = [attached EXCEPT ![t] = TRUE]
              /\ pc' = [pc EXCEPT ![t] = "created"]
              /\ outcome' = outcome
         ELSE /\ outcome' = [outcome EXCEPT ![t] = "FileNotFoundError"]
              /\ pc' = [pc EXCEPT ![t] = "idle"]
              /\ UNCHANGED <<disk, attached>>
    /\ UNCHANGED <<appVars, dirVars, envVars, index, calls, fname, expires, sweepVars>>

\* INSERT OR IGNORE without OR IGNORE and without the UNIQUE constraint
InsertPlain(rows, filepath, exp) ==
    rows \cup {[filename |-> filepath, expires_at |-> exp]}

\* line 138: INSERT OR IGNORE INTO fileindex (filename, expires_at)
InsertOrIgnore(rows, filepath, exp) ==
    IF \E r \in rows : r.filename = filepath
      THEN rows
      ELSE rows \cup {[filename |-> filepath, expires_at |-> exp]}

\* the expires_at of the rows inserted straight into the index
DirectExpiry == 0

\* INSERT INTO fileindex (filename, expires_at) VALUES (?, 0) on a connection
\* of its own: filename is UNIQUE (line 128), so a second row of the same
\* filename is refused with sqlite3.IntegrityError
direct_insert(filepath) ==
    /\ dirExists
    /\ table
    /\ IF \E r \in index : r.filename = filepath
         THEN /\ index' = index
              /\ dout' = "IntegrityError"
         ELSE /\ index' = index \cup {[filename |-> filepath,
                                         expires_at |-> DirectExpiry]}
              /\ dout' = "ok"
    /\ UNCHANGED <<otherVars, reportVars, factoryVars, healthVars, cleanerVars, dirVars, envVars,
                   disk, callerVars, sweepVars>>

\* line 72: self._save_to_index(file), inside the with block of line 71
open_save_to_index(t) ==
    LET file == join(file_directory, fname[t])
        exp  == now + maxAge * SecondsPerHour
    IN
    /\ pc[t] = "created"
    /\ IF ~dirExists \/ ~table
         THEN \* _get_cursor or cursor.execute raises; the with block of
              \* line 71 closes the handle and the exception leaves open
              /\ outcome' = [outcome EXCEPT ![t] =
                    IF ~dirExists THEN "ConnectionError"
                                  ELSE "OperationalError"]
              /\ pc' = [pc EXCEPT ![t] = "idle"]
              /\ attached' = [attached EXCEPT ![t] = FALSE]
              /\ UNCHANGED <<index, expires>>
         ELSE /\ index' = InsertOrIgnore(index, file, exp)
              /\ expires' = [expires EXCEPT ![t] = exp]
              /\ pc' = [pc EXCEPT ![t] = "yielded"]
              /\ UNCHANGED <<outcome, attached>>
    /\ UNCHANGED <<appVars, dirVars, envVars, disk, calls, fname, sweepVars>>

\* line 73 onwards: the caller writes through the handle and leaves the
\* with block, which closes the file
open_exit(t) ==
    LET loc == Location(join(file_directory, fname[t])) IN
    /\ pc[t] = "yielded"
    /\ disk' = IF attached[t] THEN Written(disk, loc, Data) ELSE disk
    /\ attached' = [attached EXCEPT ![t] = FALSE]
    /\ outcome' = [outcome EXCEPT ![t] = "ok"]
    /\ expires' = [expires EXCEPT ![t] = 0]
    /\ pc' = [pc EXCEPT ![t] = "idle"]
    /\ UNCHANGED <<appVars, dirVars, envVars, index, calls, fname, sweepVars>>

(***************************************************************************)
(* FileStore.removed_expired, step by step                                 *)
(***************************************************************************)
\* line 146: SELECT filename FROM fileindex WHERE expires_at <= ?
ExpiredStrict(rows, at) == {r.filename : r \in {x \in rows : x.expires_at < at}}

Expired(rows, at) == {r.filename : r \in {x \in rows : x.expires_at <= at}}

\* _get_expired on a cursor that does not turn the sqlite3 error of a failed
\* connect into ConnectionError
removed_expired_get_expired_raw(s) ==
    /\ constructed = "ok"
    /\ spc[s] = "idle"
    /\ IF ~dirExists \/ ~table
         THEN /\ sout' = [sout EXCEPT ![s] = "OperationalError"]
              /\ UNCHANGED <<spc, snow, to_remove, pending, missed>>
         ELSE /\ snow' = [snow EXCEPT ![s] = now]
              /\ to_remove' = [to_remove EXCEPT ![s] = Expired(index, now)]
              /\ pending' = [pending EXCEPT ![s] = Expired(index, now)]
              /\ missed' = [missed EXCEPT ![s] = FALSE]
              /\ sout' = [sout EXCEPT ![s] = "none"]
              /\ spc' = [spc EXCEPT ![s] = "removing"]
    /\ UNCHANGED <<appVars, dirVars, envVars, disk, index, callerVars>>

\* line 86: to_remove = self._get_expired()
removed_expired_get_expired(s) ==
    /\ constructed = "ok"
    /\ spc[s] = "idle"
    /\ IF ~dirExists \/ ~table
         THEN /\ sout' = [sout EXCEPT ![s] =
                    IF ~dirExists THEN "ConnectionError"
                                  ELSE "OperationalError"]
              /\ UNCHANGED <<spc, snow, to_remove, pending, missed>>
         ELSE /\ snow' = [snow EXCEPT ![s] = now]
              /\ to_remove' = [to_remove EXCEPT ![s] = Expired(index, now)]
              /\ pending' = [pending EXCEPT ![s] = Expired(index, now)]
              /\ missed' = [missed EXCEPT ![s] = FALSE]
              /\ sout' = [sout EXCEPT ![s] = "none"]
              /\ spc' = [spc EXCEPT ![s] = "removing"]
    /\ UNCHANGED <<appVars, dirVars, envVars, disk, index, callerVars>>

\* the for loop without the try/except of lines 89-92: a missing file ends
\* the sweep with FileNotFoundError
removed_expired_remove_uncaught(s, filepath) ==
    LET loc == Location(filepath) IN
    /\ spc[s] = "removing"
    /\ filepath \in pending[s]
    /\ IF Exists(loc)
         THEN /\ disk' = Unlinked(disk, loc)
              /\ attached' = Detach(loc)
              /\ pending' = [pending EXCEPT ![s] = @ \ {filepath}]
              /\ UNCHANGED <<spc, snow, to_remove, sout>>
         ELSE /\ sout' = [sout EXCEPT ![s] = "FileNotFoundError"]
              /\ spc' = [spc EXCEPT ![s] = "idle"]
              /\ to_remove' = [to_remove EXCEPT ![s] = {}]
              /\ pending' = [pending EXCEPT ![s] = {}]
              /\ snow' = [snow EXCEPT ![s] = 0]
              /\ UNCHANGED <<disk, attached>>
    /\ UNCHANGED <<appVars, dirVars, envVars, index, calls, pc, fname, outcome,
                   expires, missed>>

\* lines 88-92: one round of the for loop: os.remove(filepath), where a
\* FileNotFoundError is caught and dropped
removed_expired_remove(s, filepath) ==
    LET loc == Location(filepath) IN
    /\ spc[s] = "removing"
    /\ filepath \in pending[s]
    /\ pending' = [pending EXCEPT ![s] = @ \ {filepath}]
    /\ IF Exists(loc)
         THEN /\ disk' = Unlinked(disk, loc)
              /\ attached' = Detach(loc)
              /\ missed' = missed
         ELSE /\ missed' = [missed EXCEPT ![s] = TRUE]
              /\ UNCHANGED <<disk, attached>>
    /\ UNCHANGED <<appVars, dirVars, envVars, index, calls, pc, fname, outcome, expires,
                   spc, snow, to_remove, sout>>

\* line 155: DELETE FROM fileindex WHERE filename = ?, for each filepath
DeleteRows(rows, filepaths) == {r \in rows : r.filename \notin filepaths}

\* line 94: self._delete_from_index(to_remove), after the for loop
removed_expired_delete_from_index(s) ==
    /\ spc[s] = "removing"
    /\ pending[s] = {}
    /\ IF ~dirExists \/ ~table
         THEN /\ sout' = [sout EXCEPT ![s] =
                    IF ~dirExists THEN "ConnectionError"
                                  ELSE "OperationalError"]
              /\ index' = index
         ELSE /\ index' = DeleteRows(index, to_remove[s])
              /\ sout' = [sout EXCEPT ![s] = "ok"]
    /\ spc' = [spc EXCEPT ![s] = "idle"]
    /\ to_remove' = [to_remove EXCEPT ![s] = {}]
    /\ snow' = [snow EXCEPT ![s] = 0]
    /\ UNCHANGED <<appVars, dirVars, envVars, disk, callerVars, pending, missed>>

(***************************************************************************)
(* The environment: the clock and other actors on the file system          *)
(***************************************************************************)
\* what health_check writes into its file
Pass == "pass"

HealthFile == join(file_directory, <<"healthcheck">>)

\* health_check, lines 98-99: _get_cursor turns a failing connect into
\* ConnectionError; "SELECT 1 from fileindex" on a database without the
\* table raises sqlite3.OperationalError, which nothing translates
health_check_select ==
    /\ constructed = "ok"
    /\ hpc = "idle"
    /\ IF ~dirExists
       THEN /\ hout' = "ConnectionError"
            /\ hpc' = hpc
       ELSE IF ~table
       THEN /\ hout' = "OperationalError"
            /\ hpc' = hpc
       ELSE /\ hout' = "none"
            /\ hpc' = "selected"
    /\ UNCHANGED <<otherVars, reportVars, factoryVars, dout, cleanerVars, storeVars>>

\* health_check, lines 101-103: open(file, "w") and write "pass"
health_check_write ==
    /\ hpc = "selected"
    /\ hpc' = "idle"
    /\ IF ParentExists(Location(HealthFile))
       THEN /\ disk' = Written(Truncated(disk, Location(HealthFile)),
                               Location(HealthFile), Pass)
            /\ hout' = "ok"
       ELSE /\ disk' = disk
            /\ hout' = "FileNotFoundError"
    /\ UNCHANGED <<otherVars, reportVars, factoryVars, dout, cleanerVars, dirVars, envVars, index,
                   callerVars, sweepVars>>

(***************************************************************************)
(* The _report request handler of reports/reports.py                       *)
(***************************************************************************)
\* lines 53-54: the file name is built from the time of the request
ReportName(t) == <<ToString(t) \o "_pizza_orders.csv">>

\* line 55: full_path = os.path.join(file_directory, file_name)
FullPath == join(file_directory, file_name)

\* lines 48-55: svcs runs _filestore_factory, whose setup makes directory
\* and index; the handler takes file_directory from the store and builds
\* the name of the report
report_start ==
    /\ rpc = "idle"
    /\ setup_store
    /\ file_name' = ReportName(now)
    /\ rout' = "none"
    /\ rpc' = "named"
    /\ UNCHANGED <<otherVars, setups, setupOnFiles, healthVars, dout,
                   cleanerVars>>

\* line 57: if not os.path.exists(full_path); a report that is there is
\* offered for download as it is
report_exists ==
    /\ rpc = "named"
    /\ IF Exists(Location(FullPath))
         THEN /\ rpc' = "idle"
              /\ rout' = "ok"
         ELSE /\ rpc' = "missing"
              /\ rout' = rout
    /\ UNCHANGED <<otherVars, factoryVars, healthVars, dout, cleanerVars,
                   file_name, storeVars>>

\* lines 58-61: the builtin open(full_path, "w") creates the file; rows is
\* get_recent(0), which selects with LIMIT(0) and so is empty, and rows[0]
\* raises IndexError, which closes the file and leaves the handler
report_write ==
    /\ rpc = "missing"
    /\ rpc' = "idle"
    /\ IF ParentExists(Location(FullPath))
         THEN /\ disk' = Truncated(disk, Location(FullPath))
              /\ rout' = "IndexError"
         ELSE /\ disk' = disk
              /\ rout' = "FileNotFoundError"
    /\ UNCHANGED <<otherVars, factoryVars, healthVars, dout, cleanerVars,
                   file_name, dirVars, envVars, index, callerVars, sweepVars>>

(***************************************************************************)
(* The background cleaner of app_constructor.py                            *)
(***************************************************************************)
\* the sweeper the timer threads run
Cleaner == "cleaner"

\* the removed_expired call of the cleaner has returned or raised
SweepDone == spc[Cleaner] = "idle" /\ sout[Cleaner] \notin {"called", "none"}

\* the exceptions of removed_expired that _file_cleaner catches (line 92)
Caught == {"ConnectionError"}

\* threading.Timer.run: the interval has passed and cancel was not called:
\* the thread calls _file_cleaner, which calls removed_expired (line 90)
timer_fire(i) ==
    /\ timerState[i] = "waiting"
    /\ ~cancelled[i]
    /\ spc[Cleaner] = "idle"
    /\ timerState' = [timerState EXCEPT ![i] = "running"]
    /\ sout' = [sout EXCEPT ![Cleaner] = "called"]
    /\ UNCHANGED <<otherVars, reportVars, factoryVars, healthVars, dout, timers, cancelled, stopPc,
                   held, waited, dirVars, envVars, disk, index, callerVars,
                   spc, snow, to_remove, pending, missed>>

\* threading.Timer.run: cancel was called during the wait: the thread ends
\* without calling _file_cleaner
timer_exit(i) ==
    /\ timerState[i] = "waiting"
    /\ cancelled[i]
    /\ timerState' = [timerState EXCEPT ![i] = "finished"]
    /\ UNCHANGED <<otherVars, reportVars, factoryVars, healthVars, dout, timers, cancelled, stopPc,
                   held, waited, storeVars>>

\* the names of the Timer objects
Timers == 1..MaxTimers

\* the Timer made by the thread of Timer i: the loop makes Timers without
\* end, and the model gives the new one the first name that neither the
\* running thread nor _end_timers refers to; the Timer that had the name
\* has ended and nothing refers to it
NewTimer(i) ==
    CHOOSE n \in Timers \ {i, held} : \A m \in Timers \ {i, held} : n <= m

\* _file_cleaner, lines 92-96: after a sweep that returned or raised
\* ConnectionError a new Timer is stored in timers["files"] and started;
\* any other exception leaves _file_cleaner and ends the thread
file_cleaner_reschedule(i) ==
    /\ timerState[i] = "running"
    /\ SweepDone
    /\ IF sout[Cleaner] \in {"ok"} \cup Caught
         THEN /\ timerState' = [timerState EXCEPT ![i] = "finished",
                                                  ![NewTimer(i)] = "waiting"]
              /\ cancelled' = [cancelled EXCEPT ![NewTimer(i)] = FALSE]
              /\ timers' = NewTimer(i)
         ELSE /\ timerState' = [timerState EXCEPT ![i] = "finished"]
              /\ UNCHANGED <<timers, cancelled>>
    /\ UNCHANGED <<otherVars, reportVars, factoryVars, healthVars, dout, stopPc, held,
                   waited, storeVars>>

\* the cleaner Timers that wait for their interval or run _file_cleaner
ActiveTimers == {i \in Timers : timerState[i] \in {"waiting", "running"}}

\* the name of the Timer _start_timers makes: the first that no thread and
\* no _end_timers refers to
FirstTimer ==
    CHOOSE n \in Timers \ (ActiveTimers \cup {held}) :
        \A m \in Timers \ (ActiveTimers \cup {held}) : n <= m

\* _start_timers without the test of APP_TIMERS_STARTED
start_timers_unguarded ==
    /\ starts < MaxStarts
    /\ starts' = starts + 1
    /\ timerState' = [timerState EXCEPT ![FirstTimer] = "waiting"]
    /\ cancelled' = [cancelled EXCEPT ![FirstTimer] = FALSE]
    /\ timers' = FirstTimer
    /\ started' = TRUE
    /\ UNCHANGED <<pizzaVars, recentVars, authVars, reportVars, factoryVars,
                   healthVars, dout, stopPc, held, waited, storeVars>>

\* _start_timers, lines 68-77, the last call of construct_app: nothing
\* when the environment has APP_TIMERS_STARTED; else a Timer is stored in
\* timers["files"] and started, _end_timers becomes the handler of SIGINT
\* and APP_TIMERS_STARTED is set
start_timers ==
    /\ starts < MaxStarts
    /\ starts' = starts + 1
    /\ IF started
         THEN UNCHANGED <<timerState, cancelled, timers, started>>
         ELSE /\ timerState' = [timerState EXCEPT ![FirstTimer] = "waiting"]
              /\ cancelled' = [cancelled EXCEPT ![FirstTimer] = FALSE]
              /\ timers' = FirstTimer
              /\ started' = TRUE
    /\ UNCHANGED <<pizzaVars, recentVars, authVars, reportVars, factoryVars,
                   healthVars, dout, stopPc, held, waited, storeVars>>

\* _end_timers, lines 82-83: the for loop takes the Timer of the dictionary
\* and cancels it, which sets its finished event
end_timers_cancel ==
    /\ stopPc = "idle"
    /\ held' = timers
    /\ cancelled' = [cancelled EXCEPT ![timers] = TRUE]
    /\ stopPc' = "joining"
    /\ waited' = 0
    /\ UNCHANGED <<otherVars, reportVars, factoryVars, healthVars, dout, timers, timerState,
                   storeVars>>

\* timer.join(5.0): a second passes while the thread of the Timer runs
end_timers_wait ==
    /\ stopPc = "joining"
    /\ timerState[held] # "finished"
    /\ waited < JOIN_TIMEOUT
    /\ waited' = waited + 1
    /\ UNCHANGED <<otherVars, reportVars, factoryVars, healthVars, dout, timers, timerState,
                   cancelled, stopPc, held, storeVars>>

\* timer.join() without a timeout: it returns when the thread has ended
end_timers_join_unbounded ==
    /\ stopPc = "joining"
    /\ timerState[held] = "finished"
    /\ stopPc' = "returned"
    /\ UNCHANGED <<otherVars, reportVars, factoryVars, healthVars, dout, timers, timerState,
                   cancelled, held, waited, storeVars>>

\* line 84: timer.join(5.0) returns when the thread has ended or the five
\* seconds are over; the dictionary has no other Timer, so the for loop
\* and _end_timers end
end_timers_join ==
    /\ stopPc = "joining"
    /\ timerState[held] = "finished" \/ waited = JOIN_TIMEOUT
    /\ stopPc' = "returned"
    /\ UNCHANGED <<otherVars, reportVars, factoryVars, healthVars, dout, timers, timerState,
                   cancelled, held, waited, storeVars>>

(***************************************************************************)
(* PizzaStore                                                              *)
(***************************************************************************)
\* connect that opens a new connection over the one the store has
PizzaStore_connect_replace(t) ==
    /\ ppc[t] = "idle"
    /\ opened[t] < MaxConnects
    /\ conn' = [conn EXCEPT ![t] = opened[t] + 1]
    /\ opened' = [opened EXCEPT ![t] = @ + 1]
    /\ pout' = [pout EXCEPT ![t] = "ok"]
    /\ UNCHANGED <<ppc, saved, write_lock, dbLock, sales, prior, notPizzaVars>>

\* connect, lines 42-54: DatabaseError when the store has a connection,
\* else a new Connection is stored
PizzaStore_connect(t) ==
    /\ ppc[t] = "idle"
    /\ conn[t] # 0 \/ opened[t] < MaxConnects
    /\ IF conn[t] # 0
         THEN /\ pout' = [pout EXCEPT ![t] = "DatabaseError"]
              /\ UNCHANGED <<conn, opened>>
         ELSE /\ conn' = [conn EXCEPT ![t] = opened[t] + 1]
              /\ opened' = [opened EXCEPT ![t] = @ + 1]
              /\ pout' = [pout EXCEPT ![t] = "ok"]
    /\ UNCHANGED <<ppc, saved, write_lock, dbLock, sales, prior, notPizzaVars>>

\* disconnect, lines 56-60: closes the connection if there is one
PizzaStore_disconnect(t) ==
    /\ ppc[t] = "idle"
    /\ conn' = [conn EXCEPT ![t] = 0]
    /\ pout' = [pout EXCEPT ![t] = "ok"]
    /\ UNCHANGED <<opened, ppc, saved, write_lock, dbLock, sales, prior,
                   notPizzaVars>>

\* the connection property, lines 36-40
PizzaStore_connection(t) ==
    /\ ppc[t] = "idle"
    /\ pout' = [pout EXCEPT ![t] =
           IF conn[t] = 0 THEN "DatabaseError" ELSE "Connection"]
    /\ UNCHANGED <<conn, opened, ppc, saved, write_lock, dbLock, sales, prior,
                   notPizzaVars>>

\* health_check, lines 62-69: the DatabaseError of the connection property
\* is caught and raised as ValueError; the sales table is there
PizzaStore_health_check(t) ==
    /\ ppc[t] = "idle"
    /\ pout' = [pout EXCEPT ![t] =
           IF conn[t] = 0 THEN "ValueError" ELSE "ok"]
    /\ UNCHANGED <<conn, opened, ppc, saved, write_lock, dbLock, sales, prior,
                   notPizzaVars>>

\* save_orders that enters its block without waiting for _write_lock
save_orders_acquire_unlocked(t) ==
    /\ ppc[t] = "idle"
    /\ saved[t] < RowsToWrite
    /\ write_lock' = t
    /\ ppc' = [ppc EXCEPT ![t] = "locked"]
    /\ UNCHANGED <<conn, opened, pout, saved, dbLock, sales, prior, notPizzaVars>>

\* save_orders, line 136: with self._write_lock, the one Lock of the class
save_orders_acquire(t) ==
    /\ ppc[t] = "idle"
    /\ saved[t] < RowsToWrite
    /\ write_lock = 0
    /\ write_lock' = t
    /\ ppc' = [ppc EXCEPT ![t] = "locked"]
    /\ UNCHANGED <<conn, opened, pout, saved, dbLock, sales, prior, notPizzaVars>>

\* lines 137-138: cursor.executemany(INSERT) opens a write transaction on
\* the connection; without a connection the property raises DatabaseError,
\* and while another connection has its write open sqlite3 raises
\* OperationalError (database is locked); an exception leaves the with
\* block, which releases _write_lock, and ends the thread
save_orders_insert(t) ==
    /\ ppc[t] = "locked"
    /\ IF conn[t] = 0 \/ dbLock # 0
         THEN /\ pout' = [pout EXCEPT ![t] =
                     IF conn[t] = 0 THEN "DatabaseError"
                                    ELSE "OperationalError"]
              /\ ppc' = [ppc EXCEPT ![t] = "dead"]
              /\ write_lock' = IF write_lock = t THEN 0 ELSE write_lock
              /\ dbLock' = dbLock
         ELSE /\ dbLock' = t
              /\ ppc' = [ppc EXCEPT ![t] = "inserted"]
              /\ UNCHANGED <<pout, write_lock>>
    /\ UNCHANGED <<conn, opened, saved, sales, prior, notPizzaVars>>

\* line 140: self.connection.commit() writes the row and ends the write
save_orders_commit(t) ==
    /\ ppc[t] = "inserted"
    /\ sales' = sales + 1
    /\ dbLock' = 0
    /\ ppc' = [ppc EXCEPT ![t] = "committed"]
    /\ UNCHANGED <<conn, opened, pout, saved, write_lock, prior, notPizzaVars>>

\* the end of the with block releases _write_lock; save_order returns
save_orders_release(t) ==
    /\ ppc[t] = "committed"
    /\ write_lock' = IF write_lock = t THEN 0 ELSE write_lock
    /\ saved' = [saved EXCEPT ![t] = @ + 1]
    /\ pout' = [pout EXCEPT ![t] = "ok"]
    /\ ppc' = [ppc EXCEPT ![t] = "idle"]
    /\ UNCHANGED <<conn, opened, dbLock, sales, prior, notPizzaVars>>

(***************************************************************************)
(* PizzaStore.get_recent                                                   *)
(***************************************************************************)
\* the dates and the times of the orders; the columns are TEXT that sqlite3
\* compares as strings, and the numbers stand for strings in that order
Dates == {1, 2}

Times == {1, 2}

\* row a comes before row b under ORDER BY date DESC, time DESC, ROWID DESC
Before(a, b) ==
    \/ a.date > b.date
    \/ a.date = b.date /\ a.time > b.time
    \/ a.date = b.date /\ a.time = b.time /\ a.rowid > b.rowid

\* the rows of the table with their ROWID
Rows(tbl) ==
    {[date |-> tbl[i].date, time |-> tbl[i].time, rowid |-> i] :
        i \in DOMAIN tbl}

RECURSIVE OrderBy(_)
\* lines 107-110: the rows in the order of the ORDER BY clause
OrderBy(rows) ==
    IF rows = {}
      THEN <<>>
      ELSE LET first == CHOOSE a \in rows :
                            \A b \in rows \ {a} : Before(a, b)
           IN <<first>> \o OrderBy(rows \ {first})

\* line 111: LIMIT(?): a negative limit is no limit, and LIMIT 0 selects
\* no row
Limit(seq, k) ==
    IF k < 0 \/ k >= Len(seq) THEN seq ELSE SubSeq(seq, 1, k)

\* lines 96-118: the ROWIDs (order_id) of the Orders get_recent returns
get_recent(tbl, k) ==
    LET selected == Limit(OrderBy(Rows(tbl)), k)
    IN [i \in DOMAIN selected |-> selected[i].rowid]

\* save_order, lines 120-144: one more row at the end of the sales table
save_order_row(d, t) ==
    /\ Len(orders) < MaxOrders
    /\ orders' = Append(orders, [date |-> d, time |-> t])
    /\ UNCHANGED <<row_count, results, notRecentVars>>

\* a call of get_recent(k) on the table as it is
get_recent_call(k) ==
    /\ row_count' = k
    /\ results' = get_recent(orders, k)
    /\ UNCHANGED <<orders, notRecentVars>>

(***************************************************************************)
(* Login sessions: _decorators.py and auth/auth.py                         *)
(***************************************************************************)
\* a response of the application
Response(kind, to, code) == [kind |-> kind, to |-> to, code |-> code]

\* URLs are the paths of one host, cut into "/", "_" and names, so that
\* startswith("/_") is a test on the first two pieces
url_root == <<"/">>

LoginUrl == <<"/", "login">>

LogoutUrl == <<"/", "logout">>

\* str.startswith
StartsWith(str, prefix) ==
    /\ Len(str) >= Len(prefix)
    /\ SubSeq(str, 1, Len(prefix)) = prefix

\* lines 20-23 and 48-52: where login is to send the client back to
ReturnUrl(path) ==
    IF StartsWith(path, <<"/", "_">>) THEN url_root ELSE path

\* the 302 of flask.redirect, and the 403 check_expired gives an internal
\* route, and the 200 of a rendered page
Found == 302

Forbidden == 403

Ok == 200

\* a route under both decorators whose check_expired lets every session pass
protected_request_no_expiry(path) ==
    /\ IF usersession = <<>>
         THEN /\ return_url' = ReturnUrl(path)
              /\ response' = Response("redirect", LoginUrl, Found)
              /\ usersession' = usersession
         ELSE /\ response' = Response("body", path, Ok)
              /\ UNCHANGED <<usersession, return_url>>
    /\ UNCHANGED <<clock, notAuthVars>>

\* a request to a route under @require_login and @check_expired:
\* require_login (lines 17-31) runs first, then check_expired (lines 40-62),
\* then the body of the route
protected_request(path) ==
    /\ IF usersession = <<>>
         THEN /\ return_url' = ReturnUrl(path)
              /\ response' = Response("redirect", LoginUrl, Found)
              /\ usersession' = usersession
         ELSE IF clock - usersession[1] > SESSION_LENGTH_SECONDS
         THEN /\ usersession' = <<>>
              /\ return_url' = ReturnUrl(path)
              /\ response' = Response("redirect", LogoutUrl,
                     IF StartsWith(path, <<"/", "_">>) THEN Forbidden
                                                       ELSE Found)
         ELSE /\ response' = Response("body", path, Ok)
              /\ UNCHANGED <<usersession, return_url>>
    /\ UNCHANGED <<clock, notAuthVars>>

\* session.pop("return_url", default=url_for("root"))
PopReturnUrl == IF return_url = <<>> THEN url_root ELSE return_url

\* auth.py, lines 16-23: GET /login
login ==
    /\ IF usersession = <<>>
         THEN /\ response' = Response("page", LoginUrl, Ok)
              /\ return_url' = return_url
         ELSE /\ response' = Response("redirect", PopReturnUrl, Found)
              /\ return_url' = <<>>
    /\ UNCHANGED <<clock, usersession, notAuthVars>>

\* auth.py, lines 26-35: POST /login
login_postback ==
    /\ usersession' = <<clock>>
    /\ response' = Response("redirect", PopReturnUrl, Found)
    /\ return_url' = <<>>
    /\ UNCHANGED <<clock, notAuthVars>>

\* auth.py, lines 38-45: GET /logout
logout ==
    /\ usersession' = <<>>
    /\ response' =
          IF return_url # <<>> THEN Response("redirect", LoginUrl, Found)
                               ELSE Response("page", LogoutUrl, Ok)
    /\ UNCHANGED <<clock, return_url, notAuthVars>>

\* the steps the clock is moved by between requests: the longest time a
\* session is good for, and the shortest time that ends it
ClockSteps == {SESSION_LENGTH_SECONDS, SESSION_LENGTH_SECONDS + 1}

\* time passes between two requests
ClockTick(d) ==
    /\ clock + d <= MaxSessions * (SESSION_LENGTH_SECONDS + 1)
    /\ clock' = clock + d
    /\ UNCHANGED <<usersession, return_url, response, notAuthVars>>

Tick ==
    /\ now < MaxTicks * SecondsPerHour
    /\ now' = now + SecondsPerHour
    /\ UNCHANGED <<appVars, dirVars, maxAge, dirExists, table, disk, index,
                   callerVars, sweepVars>>

\* another actor removes a file (tests/file_store_test.py:136)
FileRemovedByOther(loc) ==
    /\ Exists(loc)
    /\ disk' = Unlinked(disk, loc)
    /\ attached' = Detach(loc)
    /\ UNCHANGED <<appVars, dirVars, envVars, index, calls, pc, fname, outcome, expires,
                   sweepVars>>

\* another actor removes the index file (tests/file_store_test.py:122);
\* sqlite3 creates an empty database on the next connect
IndexRemovedByOther ==
    /\ dirExists
    /\ table
    /\ table' = FALSE
    /\ index' = {}
    /\ UNCHANGED <<appVars, dirVars, maxAge, now, dirExists, disk, callerVars,
                   sweepVars>>

(***************************************************************************)
(* Specifications                                                          *)
(***************************************************************************)
InitCallers ==
    /\ calls = [t \in Callers |-> 0]
    /\ pc = [t \in Callers |-> "idle"]
    /\ fname = [t \in Callers |-> <<"foo">>]
    /\ outcome = [t \in Callers |-> "none"]
    /\ expires = [t \in Callers |-> 0]
    /\ attached = [t \in Callers |-> FALSE]

\* _start_timers has run: the first Timer waits for its interval, and
\* SIGINT has not arrived
InitCleaner ==
    /\ timers = 1
    /\ timerState = [i \in Timers |-> IF i = 1 THEN "waiting" ELSE "unborn"]
    /\ cancelled = [i \in Timers |-> FALSE]
    /\ stopPc = "idle"
    /\ held = 0
    /\ waited = 0
    /\ started = TRUE
    /\ starts = 1

\* the process before construct_app is called: no Timer is made; the
\* environment it was started with may have APP_TIMERS_STARTED
InitBoot ==
    /\ timers = 0
    /\ timerState = [i \in Timers |-> "unborn"]
    /\ cancelled = [i \in Timers |-> FALSE]
    /\ stopPc = "idle"
    /\ held = 0
    /\ waited = 0
    /\ started \in BOOLEAN
    /\ starts = 0

\* no _report request has been made
InitReport ==
    /\ rpc = "idle"
    /\ file_name = <<>>
    /\ rout = "none"

\* the threads that have a PizzaStore of their own on the one database file
PizzaThreads == Callers

\* the rows the sales table may have before the writers run
PriorChoices == {0, 1}

\* a client without session cookie, before its first request
InitAuth ==
    /\ clock = 0
    /\ usersession = <<>>
    /\ return_url = <<>>
    /\ response = Response("none", <<>>, 0)

\* the fixture has built the sales table, which has n rows; no store is
\* connected
InitPizzaWith(n) ==
    /\ conn = [t \in PizzaThreads |-> 0]
    /\ opened = [t \in PizzaThreads |-> 0]
    /\ pout = [t \in PizzaThreads |-> "none"]
    /\ ppc = [t \in PizzaThreads |-> "idle"]
    /\ saved = [t \in PizzaThreads |-> 0]
    /\ write_lock = 0
    /\ dbLock = 0
    /\ sales = n
    /\ prior = n
    /\ orders = <<>>
    /\ row_count = 0
    /\ results = <<>>
    /\ InitAuth

\* the sales table of the fixture is empty
InitPizza == InitPizzaWith(0)

\* the application has not touched the store yet
InitApp ==
    /\ setups = 0
    /\ setupOut = "none"
    /\ setupOnFiles = FALSE
    /\ hpc = "idle"
    /\ hout = "none"
    /\ dout = "none"
    /\ InitCleaner
    /\ InitReport
    /\ InitPizza

InitSweepers ==
    /\ spc = [s \in Sweeping |-> "idle"]
    /\ snow = [s \in Sweeping |-> 0]
    /\ to_remove = [s \in Sweeping |-> {}]
    /\ pending = [s \in Sweeping |-> {}]
    /\ sout = [s \in Sweeping |-> "none"]
    /\ missed = [s \in Sweeping |-> FALSE]

\* FileStore(DOWNLOAD_DIRECTORY) was constructed; setup has not run yet
Init ==
    /\ directory = DOWNLOAD_DIRECTORY
    /\ constructed = "ok"
    /\ file_directory = assemble_directory(DOWNLOAD_DIRECTORY)
    /\ maxAge \in AgeChoices
    /\ now = 0
    /\ dirExists = FALSE
    /\ table = FALSE
    /\ disk = <<>>
    /\ index = {}
    /\ InitCallers
    /\ InitSweepers
    /\ InitApp

\* One thread calls open, time and again, while the cleaner sweeps and other
\* actors touch the directory.
Next ==
    \/ setup
    \/ \E f \in FileNames : open_check(Handler, f)
    \/ open_create(Handler)
    \/ open_save_to_index(Handler)
    \/ open_exit(Handler)
    \/ \E s \in Sweepers : removed_expired_get_expired(s)
    \/ \E s \in Sweepers, fp \in UNION {pending[x] : x \in Sweepers} :
           removed_expired_remove(s, fp)
    \/ \E s \in Sweepers : removed_expired_delete_from_index(s)
    \/ Tick
    \/ \E loc \in DOMAIN disk : FileRemovedByOther(loc)
    \/ IndexRemovedByOther

Spec == Init /\ [][Next]_vars

\* The concurrent writers of tests/file_store_test.py (test_current_file_saves):
\* the store is set up and empty, every thread calls open once, nothing else
\* touches the directory.
InitWriters ==
    /\ directory = DOWNLOAD_DIRECTORY
    /\ constructed = "ok"
    /\ file_directory = assemble_directory(DOWNLOAD_DIRECTORY)
    /\ maxAge \in AgeChoices
    /\ now = 0
    /\ dirExists = TRUE
    /\ table = TRUE
    /\ disk = <<>>
    /\ index = {}
    /\ InitCallers
    /\ InitSweepers
    /\ InitApp

NextWriters ==
    \/ \E t \in Callers, f \in WriterNames : calls[t] = 0 /\ open_check(t, f)
    \/ \E t \in Callers : open_create(t)
    \/ \E t \in Callers : open_save_to_index(t)
    \/ \E t \in Callers : open_exit(t)
    \/ Tick

SpecWriters == InitWriters /\ [][NextWriters]_vars

\* the directory sandbox alone: any directory string, then the constructor
InitDir ==
    /\ directory \in DirInputs
    /\ constructed = "new"
    /\ file_directory = <<>>
    /\ maxAge = 1
    /\ now = 0
    /\ dirExists = FALSE
    /\ table = FALSE
    /\ disk = <<>>
    /\ index = {}
    /\ InitCallers
    /\ InitSweepers
    /\ InitApp

NextDir == FileStore_init

SpecDir == InitDir /\ [][NextDir]_vars

\* the names the index is exercised with
IndexNames == {<<"foo">>, <<"bar">>}

\* the two callers whose open calls race on the index
IndexCallers == {Handler, Handler + 1}

\* The index under every operation that writes it: two racing open calls,
\* the sweep, rows inserted straight into the table, and time.
NextIndex ==
    \/ \E t \in IndexCallers, f \in IndexNames :
           calls[t] = 0 /\ open_check(t, f)
    \/ \E t \in IndexCallers : open_create(t)
    \/ \E t \in IndexCallers : open_save_to_index(t)
    \/ \E t \in IndexCallers : open_exit(t)
    \/ \E f \in IndexNames : direct_insert(join(file_directory, f))
    \/ \E s \in Sweepers : removed_expired_get_expired(s)
    \/ \E s \in Sweepers, fp \in UNION {pending[x] : x \in Sweepers} :
           removed_expired_remove(s, fp)
    \/ \E s \in Sweepers : removed_expired_delete_from_index(s)
    \/ Tick

SpecIndex == InitWriters /\ [][NextIndex]_vars

\* the name the cleaner's store is written with
CleanerNames == {<<"foo">>}

\* The cleaner: the timer threads sweep the store of a running application,
\* SIGINT calls _end_timers, a request handler calls open and another actor
\* removes the index file.
NextCleaner ==
    \/ setup
    \/ \E f \in CleanerNames : open_check(Handler, f)
    \/ open_create(Handler)
    \/ open_save_to_index(Handler)
    \/ open_exit(Handler)
    \/ IndexRemovedByOther
    \/ \E i \in Timers : timer_fire(i)
    \/ \E i \in Timers : timer_exit(i)
    \/ sout[Cleaner] = "called" /\ removed_expired_get_expired(Cleaner)
    \/ \E fp \in pending[Cleaner] : removed_expired_remove(Cleaner, fp)
    \/ removed_expired_delete_from_index(Cleaner)
    \/ \E i \in Timers : file_cleaner_reschedule(i)
    \/ end_timers_cancel
    \/ end_timers_wait
    \/ end_timers_join

SpecCleaner == Init /\ [][NextCleaner]_vars

\* The main thread runs the signal handler to its end: its steps are taken
\* when they can be; the timer threads and the sweep may stall for ever.
SpecCleanerFair ==
    /\ SpecCleaner
    /\ WF_vars(end_timers_wait)
    /\ WF_vars(end_timers_join)

\* PizzaStore objects under any sequence of connect, disconnect, connection
\* and health_check calls
NextPizza ==
    \/ \E t \in PizzaThreads : PizzaStore_connect(t)
    \/ \E t \in PizzaThreads : PizzaStore_disconnect(t)
    \/ \E t \in PizzaThreads : PizzaStore_connection(t)
    \/ \E t \in PizzaThreads : PizzaStore_health_check(t)

SpecPizza == Init /\ [][NextPizza]_vars

\* The threads of test_writing_lock_on_database: each runs _writer, which
\* connects a store of its own, saves its orders one by one and disconnects.
NextPizzaWriters ==
    \/ \E t \in PizzaThreads : opened[t] = 0 /\ PizzaStore_connect(t)
    \/ \E t \in PizzaThreads : conn[t] # 0 /\ save_orders_acquire(t)
    \/ \E t \in PizzaThreads : save_orders_insert(t)
    \/ \E t \in PizzaThreads : save_orders_commit(t)
    \/ \E t \in PizzaThreads : save_orders_release(t)
    \/ \E t \in PizzaThreads :
           /\ conn[t] # 0
           /\ saved[t] = RowsToWrite
           /\ PizzaStore_disconnect(t)

\* the file store is as in Init; the sales table has its prior rows
InitPizzaWriters ==
    /\ directory = DOWNLOAD_DIRECTORY
    /\ constructed = "ok"
    /\ file_directory = assemble_directory(DOWNLOAD_DIRECTORY)
    /\ maxAge \in AgeChoices
    /\ now = 0
    /\ dirExists = FALSE
    /\ table = FALSE
    /\ disk = <<>>
    /\ index = {}
    /\ InitCallers
    /\ InitSweepers
    /\ setups = 0
    /\ setupOut = "none"
    /\ setupOnFiles = FALSE
    /\ hpc = "idle"
    /\ hout = "none"
    /\ dout = "none"
    /\ InitCleaner
    /\ InitReport
    /\ \E n \in PriorChoices : InitPizzaWith(n)

SpecPizzaWriters == InitPizzaWriters /\ [][NextPizzaWriters]_vars

\* the row_count arguments get_recent is called with
RowCounts == 0..(MaxOrders + 1)

\* The sales table as orders are saved, and get_recent calls on it.
NextRecent ==
    \/ \E d \in Dates, t \in Times : save_order_row(d, t)
    \/ \E k \in RowCounts : get_recent_call(k)

SpecRecent == Init /\ [][NextRecent]_vars

\* the routes under both decorators: /reports/, /reports/_report and
\* /reports/_download/<filename> of reports.py, /_orders_table of app.py
ProtectedRoutes ==
    { <<"/", "reports", "/">>,
      <<"/", "reports", "/", "_", "report">>,
      <<"/", "reports", "/", "_", "download", "/", "file">>,
      <<"/", "_", "orders_table">> }

\* One client and its session cookie: requests to protected routes, login
\* and logout, one after the other, as time passes.
NextAuth ==
    \/ \E path \in ProtectedRoutes : protected_request(path)
    \/ login
    \/ login_postback
    \/ logout
    \/ \E d \in ClockSteps : ClockTick(d)

SpecAuth == Init /\ [][NextAuth]_vars

\* A request handler that calls open, time and again, while the cleaner
\* sweeps the same directory and time passes; nothing else touches it.
NextSweeping ==
    \/ \E f \in IndexNames : open_check(Handler, f)
    \/ open_create(Handler)
    \/ open_save_to_index(Handler)
    \/ open_exit(Handler)
    \/ removed_expired_get_expired(Cleaner)
    \/ \E fp \in pending[Cleaner] : removed_expired_remove(Cleaner, fp)
    \/ removed_expired_delete_from_index(Cleaner)
    \/ Tick

SpecSweeping == InitWriters /\ [][NextSweeping]_vars

\* One thread that calls open and removed_expired one after the other,
\* never one during the other, while time passes.
NextSequential ==
    \/ \E f \in IndexNames : spc[Cleaner] = "idle" /\ open_check(Handler, f)
    \/ open_create(Handler)
    \/ open_save_to_index(Handler)
    \/ open_exit(Handler)
    \/ pc[Handler] = "idle" /\ removed_expired_get_expired(Cleaner)
    \/ \E fp \in pending[Cleaner] : removed_expired_remove(Cleaner, fp)
    \/ removed_expired_delete_from_index(Cleaner)
    \/ Tick

SpecSequential == InitWriters /\ [][NextSequential]_vars

\* The running application while its index stays reachable: a request
\* handler calls open, time passes, and the timer threads sweep, each one
\* starting the next.
NextReclaimer ==
    \/ \E f \in CleanerNames : open_check(Handler, f)
    \/ open_create(Handler)
    \/ open_save_to_index(Handler)
    \/ open_exit(Handler)
    \/ Tick
    \/ \E i \in Timers : timer_fire(i)
    \/ sout[Cleaner] = "called" /\ removed_expired_get_expired(Cleaner)
    \/ \E fp \in pending[Cleaner] : removed_expired_remove(Cleaner, fp)
    \/ removed_expired_delete_from_index(Cleaner)
    \/ \E i \in Timers : file_cleaner_reschedule(i)

SpecReclaimer == InitWriters /\ [][NextReclaimer]_vars

\* The interval of a Timer passes and its thread runs _file_cleaner to its
\* end, and a request handler that has called open runs its block to the
\* end: every step of these threads is taken when it can be. No new
\* request has to come, and the clock may stop.
SpecReclaimerFair ==
    /\ SpecReclaimer
    /\ WF_vars(open_create(Handler))
    /\ WF_vars(open_save_to_index(Handler))
    /\ WF_vars(open_exit(Handler))
    /\ WF_vars(\E i \in Timers : timer_fire(i))
    /\ WF_vars(sout[Cleaner] = "called" /\ removed_expired_get_expired(Cleaner))
    /\ WF_vars(\E fp \in pending[Cleaner] : removed_expired_remove(Cleaner, fp))
    /\ WF_vars(removed_expired_delete_from_index(Cleaner))
    /\ WF_vars(\E i \in Timers : file_cleaner_reschedule(i))

\* The process from its start: construct_app is called, time and again;
\* the Timers fire and sweep the store, each one starting the next, and
\* SIGINT calls _end_timers once a Timer is in the dictionary.
InitStarting ==
    /\ directory = DOWNLOAD_DIRECTORY
    /\ constructed = "ok"
    /\ file_directory = assemble_directory(DOWNLOAD_DIRECTORY)
    /\ maxAge \in AgeChoices
    /\ now = 0
    /\ dirExists = TRUE
    /\ table = TRUE
    /\ disk = <<>>
    /\ index = {}
    /\ InitCallers
    /\ InitSweepers
    /\ setups = 0
    /\ setupOut = "none"
    /\ setupOnFiles = FALSE
    /\ hpc = "idle"
    /\ hout = "none"
    /\ dout = "none"
    /\ InitBoot
    /\ InitReport
    /\ InitPizza

NextStarting ==
    \/ start_timers
    \/ \E i \in Timers : timer_fire(i)
    \/ \E i \in Timers : timer_exit(i)
    \/ sout[Cleaner] = "called" /\ removed_expired_get_expired(Cleaner)
    \/ \E fp \in pending[Cleaner] : removed_expired_remove(Cleaner, fp)
    \/ removed_expired_delete_from_index(Cleaner)
    \/ \E i \in Timers : file_cleaner_reschedule(i)
    \/ \E f \in CleanerNames : open_check(Handler, f)
    \/ open_create(Handler)
    \/ open_save_to_index(Handler)
    \/ open_exit(Handler)
    \/ timers # 0 /\ end_timers_cancel
    \/ end_timers_wait
    \/ end_timers_join

SpecStarting == InitStarting /\ [][NextStarting]_vars

\* no thread has called removed_expired yet
NoSweepYet == \A s \in Sweeping : spc[s] = "idle" /\ sout[s] = "none"

\* Files are made and time passes; then the cleaner and a caller each run
\* removed_expired once, their steps in any order, and nothing else runs.
NextTwoSweeps ==
    \/ \E f \in IndexNames : NoSweepYet /\ open_check(Handler, f)
    \/ open_create(Handler)
    \/ open_save_to_index(Handler)
    \/ open_exit(Handler)
    \/ NoSweepYet /\ Tick
    \/ \E s \in Sweeping :
          /\ pc[Handler] = "idle"
          /\ sout[s] = "none"
          /\ removed_expired_get_expired(s)
    \/ \E s \in Sweeping :
          \E fp \in pending[s] : removed_expired_remove(s, fp)
    \/ \E s \in Sweeping : removed_expired_delete_from_index(s)

SpecTwoSweeps == InitWriters /\ [][NextTwoSweeps]_vars

\* the names the application's requests ask open for
AppNames == {<<"foo">>, <<"healthcheck">>}

\* The application of app_constructor.py: requests get the FileStore service
\* from its factory, svcs pings health_check, a request handler calls open,
\* and other actors touch the directory.
NextApp ==
    \/ filestore_factory
    \/ health_check_select
    \/ health_check_write
    \/ \E f \in AppNames : open_check(Handler, f)
    \/ open_create(Handler)
    \/ open_save_to_index(Handler)
    \/ open_exit(Handler)
    \/ \E loc \in DOMAIN disk : FileRemovedByOther(loc)
    \/ IndexRemovedByOther

SpecApp == Init /\ [][NextApp]_vars

\* The _report requests of reports/reports.py, as time passes, next to a
\* request handler that calls open and to other actors.
NextReport ==
    \/ report_start
    \/ report_exists
    \/ report_write
    \/ \E f \in CleanerNames : open_check(Handler, f)
    \/ open_create(Handler)
    \/ open_save_to_index(Handler)
    \/ open_exit(Handler)
    \/ Tick
    \/ \E loc \in DOMAIN disk : FileRemovedByOther(loc)
    \/ IndexRemovedByOther

SpecReport == Init /\ [][NextReport]_vars

(***************************************************************************)
(* Properties                                                              *)
(***************************************************************************)
\* the path open(filename) of caller t works on, and where it lies
FileOf(t) == join(file_directory, fname[t])

LocOf(t) == Location(FileOf(t))

RowsOf(rows, filepath) == {r \in rows : r.filename = filepath}

IndexErrors == {"ConnectionError", "OperationalError"}

\* C1: when open has created the file and the index registration then
\* fails, the call fails and the file it created is gone again.
C1_RollbackOnIndexFailure ==
    [][\A t \in Callers :
          (pc[t] = "created" /\ pc'[t] = "idle"
              /\ outcome'[t] \in IndexErrors)
          => LocOf(t) \notin DOMAIN disk']_vars

\* caller t was handed a writable handle by its open call
GotHandle(t) == pc[t] = "yielded" \/ outcome[t] = "ok"

\* C2: of the callers that call open at the same time with one filename that
\* does not exist yet, exactly one is handed a handle; no two of them are.
C2_OneCallerWins ==
    \A t, u \in Callers :
        (t # u /\ calls[t] = 1 /\ calls[u] = 1 /\ fname[t] = fname[u])
        => ~(GotHandle(t) /\ GotHandle(u))

\* C3: open of a filename whose file is on disk raises FileExistsError and
\* changes neither the index nor any file.
C3_ExistingFileRejected ==
    [][\A t \in Callers :
          (pc[t] = "idle" /\ calls'[t] = calls[t] + 1
              /\ Location(join(file_directory, fname'[t])) \in DOMAIN disk)
          => /\ outcome'[t] = "FileExistsError"
             /\ pc'[t] = "idle"
             /\ index' = index
             /\ disk' = disk]_vars

C3_Witness ==
    /\ outcome[Handler] = "FileExistsError"
    /\ pc[Handler] = "idle"
    /\ Exists(LocOf(Handler))
    /\ disk[LocOf(Handler)] = Data
    /\ RowsOf(index, FileOf(Handler)) # {}

\* C4: when open hands out the handle, the index holds exactly one record of
\* the file, and its expires_at is now + max_file_age_hours * 3600.
C4_RecordExpiresAfterMaxAge ==
    [][\A t \in Callers :
          (pc[t] = "created" /\ pc'[t] = "yielded")
          => RowsOf(index', FileOf(t)) =
                {[filename |-> FileOf(t),
                  expires_at |-> now + maxAge * SecondsPerHour]}]_vars

\* every caller has made its one call and the call is over
AllFinished == \A t \in Callers : calls[t] = 1 /\ pc[t] = "idle"

DistinctNames == \A t, u \in Callers : t # u => fname[t] # fname[u]

\* C5: when the callers call open at the same time with pairwise distinct
\* new filenames, every call succeeds and there are as many files on disk
\* and records in the index as callers, one record per file.
C5_DistinctNamesAllSucceed ==
    (AllFinished /\ DistinctNames)
    => /\ \A t \in Callers :
             /\ outcome[t] = "ok"
             /\ Exists(LocOf(t))
             /\ disk[LocOf(t)] = Data
             /\ Cardinality(RowsOf(index, FileOf(t))) = 1
       /\ Cardinality(DOMAIN disk) = NumCallers
       /\ Cardinality(index) = NumCallers

C5_Witness ==
    /\ AllFinished
    /\ DistinctNames
    /\ \A t \in Callers : outcome[t] = "ok"

\* C6: every file on disk that open created lies in the subtree of the
\* managed directory (in this model only open creates files).
C6_FilesInsideManagedDirectory ==
    \A loc \in DOMAIN disk : Below(loc, DirLocation)

\* how deep below the root the walk along the directory string ends, or -1
\* once it has stepped above the root
RECURSIVE Depth(_, _, _)
Depth(comps, i, d) ==
    IF d < 0 \/ i > Len(comps) THEN d
    ELSE IF comps[i] \in {"", "."} THEN Depth(comps, i + 1, d)
    ELSE IF comps[i] = ".." THEN Depth(comps, i + 1, d - 1)
    ELSE Depth(comps, i + 1, d + 1)

\* the claim's condition on the normalised form of d
NormalisedFormAccepted(d) ==
    /\ normpath(d) # <<".">>
    /\ normpath(d) # <<"..">>
    /\ ~isabs(normpath(d))
    /\ ~StartsWithDotDotSlash(normpath(d))

\* C7: FileStore(d) succeeds exactly when the normalised form of d is
\* neither ".", nor "..", nor absolute, nor begins with "../", which is
\* exactly when d is relative and leads to a directory strictly below the
\* root without stepping above it on the way; then the managed directory is
\* the root joined with the normalised form, and otherwise ValueError is
\* raised.
C7_DirectoryAcceptedIffInsideRoot ==
    constructed # "new"
    => /\ constructed = "ok" <=> NormalisedFormAccepted(directory)
       /\ constructed = "ok"
            <=> (~isabs(directory) /\ Depth(directory, 1, 0) >= 1)
       /\ constructed = "ok"
            => /\ file_directory = join(Root, normpath(directory))
               /\ Below(Location(file_directory), Location(Root))
               /\ Location(file_directory)
                    = Location(join(Root, directory))
       /\ constructed # "ok"
            => constructed = "ValueError" /\ file_directory = <<>>
       /\ directory = <<"foo", "bar", "..", "baz">>
            => file_directory = <<"", "srv", "foo", "baz">>
       /\ directory \in {<<"foo", "..", "..", "baz">>, <<"..", "biz">>,
                         <<".">>, Root}
            => constructed = "ValueError"

C7_Witness ==
    /\ constructed = "ok"
    /\ directory = <<"foo", "bar", "..", "baz">>
    /\ file_directory = <<"", "srv", "foo", "baz">>

\* sweep s takes a step of its for loop that unlinks the file at loc
SweepUnlinks(s, loc) ==
    /\ spc[s] = "removing"
    /\ pending'[s] # pending[s]
    /\ loc \in DOMAIN disk
    /\ loc \notin DOMAIN disk'

\* C8: with max_file_age_hours = 0 no sweep deletes a file, and no sweep
\* removes an index record.
C8_ZeroAgeNeverSwept ==
    [][maxAge = 0
       => \A s \in Sweepers :
             /\ \A loc \in DOMAIN disk : ~SweepUnlinks(s, loc)
             /\ (spc[s] = "removing" /\ spc'[s] = "idle")
                   => index' = index]_vars

\* C9: with a positive max_file_age_hours, a sweep whose filter was
\* evaluated before the expiry of a file that open created (the time
\* _save_to_index read plus max_file_age_hours * 3600) does not delete the
\* file.  Stated for the files whose open call is at its yield.
C9_NoPrematureSweep ==
    [][\A s \in Sweepers, t \in Callers :
          (maxAge > 0 /\ pc[t] = "yielded" /\ attached[t]
              /\ SweepUnlinks(s, LocOf(t)))
          => snow[s] >= expires[t]]_vars

\* C10: a file of to_remove that is missing from disk raises no error in the
\* sweep: the for loop goes on over every other file of to_remove and
\* deletes it, and _delete_from_index then removes the records of all of
\* to_remove; the sweep fails only when the index cannot be reached.
C10_SweepToleratesMissingFile ==
    [][\A s \in Sweepers :
          /\ (spc[s] = "removing" /\ pending'[s] # pending[s])
                => /\ \E fp \in pending[s] :
                         /\ pending'[s] = pending[s] \ {fp}
                         /\ Location(fp) \notin DOMAIN disk'
                   /\ spc'[s] = "removing"
                   /\ sout'[s] = sout[s]
          /\ (spc[s] = "removing" /\ spc'[s] = "idle")
                => /\ pending[s] = {}
                   /\ IF dirExists /\ table
                        THEN /\ sout'[s] = "ok"
                             /\ \A r \in index' :
                                   r.filename \notin to_remove[s]
                        ELSE sout'[s] \in IndexErrors]_vars

\* a sweep over two or more expired files met a missing one, has gone
\* through all of to_remove, and none of its files is left on disk
C10_Witness ==
    \E s \in Sweepers :
        /\ spc[s] = "removing"
        /\ missed[s]
        /\ pending[s] = {}
        /\ Cardinality(to_remove[s]) >= 2
        /\ \E fp \in to_remove[s] : RowsOf(index, fp) # {}
        /\ \A fp \in to_remove[s] : ~Exists(Location(fp))
        /\ dirExists /\ table

\* C11: a health_check on a store whose index file is gone, or whose index
\* has no fileindex table, fails with ConnectionError and never with a raw
\* sqlite3 exception.
C11_HealthCheckFailsWithConnectionError ==
    [][(/\ hpc = "idle"
        /\ ~dirExists \/ ~table
        /\ <<hpc, hout>>' # <<hpc, hout>>)
       => (hpc' = "idle" /\ hout' = "ConnectionError")]_vars

\* no two records of the index have the same filename
IndexUnique == \A r1, r2 \in index : r1.filename = r2.filename => r1 = r2

\* C12: whatever open calls, sweeps and straight inserts do, and however
\* they interleave, every filename has at most one record in the index;
\* when open registers a filename that has a record already, the insert
\* does nothing and raises nothing, and the record keeps its expires_at.
C12_OneRecordPerFilename ==
    /\ []IndexUnique
    /\ [][\A t \in Callers :
             (/\ pc[t] = "created"
              /\ pc'[t] # "created"
              /\ dirExists /\ table
              /\ RowsOf(index, FileOf(t)) # {})
             => (index' = index /\ pc'[t] = "yielded")]_vars

\* an open call has registered a filename whose record was there before,
\* with another expires_at than the call computed
C12_Witness ==
    \E t \in Callers :
        /\ pc[t] = "yielded"
        /\ \E r \in index :
               r.filename = FileOf(t) /\ r.expires_at # expires[t]

\* C13: setup on a store that has its directory, its index and files
\* already does not fail and changes neither the index records nor the
\* files, however many open calls came before.
C13_SetupIdempotent ==
    [][(setups' # setups /\ dirExists /\ table)
       => (setupOut' = "ok" /\ storeVars' = storeVars)]_vars

\* the factory has run setup again, on a store that had records and files,
\* and they are still there
C13_Witness ==
    /\ setups >= 2
    /\ setupOnFiles
    /\ setupOut = "ok"
    /\ index # {}
    /\ disk # <<>>

\* C14: when a sweep cycle of the cleaner fails because the index cannot
\* be opened or queried, the thread of that cycle still leaves a new Timer
\* waiting for the next cycle.
C14_FailedSweepKeepsLoop ==
    [][\A i \in Timers :
          (/\ timerState[i] = "running"
           /\ timerState'[i] = "finished"
           /\ sout[Cleaner] # "ok")
          => (timers' # i /\ timerState'[timers'] = "waiting")]_vars

\* C15: once _end_timers has returned, no Timer is left that waits for its
\* interval and will start a sweep cycle.
C15_StoppedAfterStop ==
    stopPc = "returned"
    => \A i \in Timers : ~(timerState[i] = "waiting" /\ ~cancelled[i])

\* C16: _end_timers, once called, returns, also when the sweep in flight
\* never finishes.
C16_StopTerminates == (stopPc = "joining") ~> (stopPc = "returned")

\* _end_timers has returned after the full timeout while the thread of
\* the Timer it joined is still in its sweep
C16_Witness ==
    /\ stopPc = "returned"
    /\ timerState[held] = "running"
    /\ waited = JOIN_TIMEOUT

\* C17: removed_expired on a store whose directory, and so its index file,
\* cannot be opened fails with ConnectionError and removes no file and no
\* index record.
C17_SweepFailsWithConnectionError ==
    [][\A s \in Sweepers :
          (/\ ~dirExists
           /\ spc[s] = "idle"
           /\ sout'[s] \notin {sout[s], "called"})
          => (/\ sout'[s] = "ConnectionError"
              /\ spc'[s] = "idle"
              /\ disk' = disk
              /\ index' = index)]_vars

\* a sweep has failed with ConnectionError on a store without directory,
\* while there are files it could have removed
C17_Witness ==
    \E s \in Sweepers :
        /\ ~dirExists
        /\ spc[s] = "idle"
        /\ sout[s] = "ConnectionError"
        /\ disk # <<>>

\* C18: every report file the _report handler creates in the managed
\* directory has an index record when the handler is done with it.
C18_ReportFilesIndexed ==
    [][(/\ rpc = "missing"
        /\ rpc' = "idle"
        /\ Location(FullPath) \in DOMAIN disk'
        /\ Below(Location(FullPath), DirLocation))
       => RowsOf(index', FullPath) # {}]_vars

\* C19: connect on a connected PizzaStore raises DatabaseError and keeps
\* the connection; the connection property and health_check of a store
\* that is not connected raise DatabaseError and ValueError; disconnect on
\* a store that is not connected changes nothing; connect on a store that
\* is not connected, also after a disconnect, gives it a connection.
C19_ConnectionLifecycle ==
    [][\A t \in PizzaThreads :
          /\ (PizzaStore_connect(t) /\ conn[t] # 0)
                => (pout'[t] = "DatabaseError" /\ conn'[t] = conn[t])
          /\ (PizzaStore_connect(t) /\ conn[t] = 0)
                => (pout'[t] = "ok" /\ conn'[t] # 0)
          /\ (PizzaStore_connection(t) /\ conn[t] = 0)
                => pout'[t] = "DatabaseError"
          /\ (PizzaStore_health_check(t) /\ conn[t] = 0)
                => pout'[t] = "ValueError"
          /\ (PizzaStore_disconnect(t) /\ conn[t] = 0)
                => (pout'[t] = "ok" /\ conn' = conn)
          /\ PizzaStore_disconnect(t) => conn'[t] = 0]_vars

\* a store on its second connection, opened after a disconnect, has
\* refused another connect
C19_Witness ==
    \E t \in PizzaThreads :
        /\ conn[t] = 2
        /\ opened[t] = 2
        /\ pout[t] = "DatabaseError"

\* every writer thread has ended
WritersFinished ==
    \A t \in PizzaThreads :
        \/ ppc[t] = "dead"
        \/ opened[t] = 1 /\ conn[t] = 0 /\ ppc[t] = "idle"

\* C20: no save_order of the concurrent writer threads fails, and when all
\* threads have finished the sales table has the rows it had before and
\* one more for every save_order of every thread.
C20_NoWriteLost ==
    /\ \A t \in PizzaThreads : ppc[t] # "dead"
    /\ WritersFinished
          => sales = prior + Cardinality(PizzaThreads) * RowsToWrite

\* all writer threads have saved their rows and disconnected
C20_Witness ==
    /\ WritersFinished
    /\ \A t \in PizzaThreads : saved[t] = RowsToWrite
    /\ sales = prior + Cardinality(PizzaThreads) * RowsToWrite
    /\ Cardinality(PizzaThreads) >= 2

\* the smaller of two numbers
Min(a, b) == IF a < b THEN a ELSE b

\* the row of the table with ROWID i
RowOf(tbl, i) == [date |-> tbl[i].date, time |-> tbl[i].time, rowid |-> i]

\* ids lists rows of the table, each once, latest date first, then latest
\* time, then highest ROWID, and no row left out comes before a listed one
RecentFirst(tbl, ids) ==
    /\ \A i \in DOMAIN ids : ids[i] \in DOMAIN tbl
    /\ \A i, j \in DOMAIN ids :
          i < j => Before(RowOf(tbl, ids[i]), RowOf(tbl, ids[j]))
    /\ \A i \in DOMAIN ids, r \in DOMAIN tbl :
          (\A j \in DOMAIN ids : ids[j] # r)
            => Before(RowOf(tbl, ids[i]), RowOf(tbl, r))

\* C21: get_recent returns the orders latest date first, then latest time,
\* then highest insertion id; get_recent(0) returns all of them and
\* get_recent(k), k >= 1, the first min(k, count) of them.
C21_RecentOrdersSorted ==
    [][\A k \in RowCounts :
          get_recent_call(k)
          => /\ RecentFirst(orders, results')
             /\ Len(results') =
                   IF k = 0 THEN Len(orders) ELSE Min(k, Len(orders))]_vars

\* the session holds a usersession that has not expired
SessionValid ==
    /\ usersession # <<>>
    /\ clock - usersession[1] <= SESSION_LENGTH_SECONDS

\* C22: a route under require_login and check_expired runs its body only
\* with a usersession that has not expired; otherwise it answers with a
\* redirect and runs no body, an expired usersession is removed, and a
\* client without usersession is sent to login until it posts a new login.
C22_BodyOnlyWithValidSession ==
    [][/\ \A path \in ProtectedRoutes :
            protected_request(path)
            => /\ response'.kind = "body" <=> SessionValid
               /\ ~SessionValid
                    => (response'.kind = "redirect" /\ usersession' = <<>>)
               /\ usersession = <<>> => response'.to = LoginUrl
       /\ (usersession = <<>> /\ usersession' # <<>>) => login_postback
      ]_vars

\* a request has found the usersession expired, removed it and answered
\* with the redirect to logout
C22_Witness ==
    /\ response.kind = "redirect"
    /\ response.to = LogoutUrl
    /\ usersession = <<>>
    /\ clock > SESSION_LENGTH_SECONDS

\* the name of the route, the part after the last "/", starts with "_"
Internal(path) ==
    \E i \in 1..(Len(path) - 1) : path[i] = "/" /\ path[i + 1] = "_"

\* C23: when a request to an internal route is rejected by require_login
\* or check_expired, the return_url kept in the session is the site root.
C23_InternalRouteReturnsToRoot ==
    [][\A path \in ProtectedRoutes :
          (/\ Internal(path)
           /\ protected_request(path)
           /\ response'.kind = "redirect")
          => return_url' = url_root]_vars

\* no open call and no sweep is in flight
Quiet ==
    /\ \A t \in Callers : pc[t] = "idle"
    /\ \A s \in Sweepers : spc[s] = "idle"

\* the index records of the file at loc
RecordsAt(loc) == {r \in index : Location(r.filename) = loc}

\* C24: however open calls and sweeps interleave, once they have all
\* completed every file on disk that the store created has exactly one
\* index record.
C24_FilesKeepTheirRecord ==
    Quiet => \A loc \in DOMAIN disk : Cardinality(RecordsAt(loc)) = 1

\* C25: while a sweep is at work the records it selected are all in the
\* index, and when it removes them at its end none of their files is on
\* disk.
C25_FilesFirstRecordsSecond ==
    /\ [](\A s \in Sweepers :
            spc[s] = "removing"
            => \A fp \in to_remove[s] : RowsOf(index, fp) # {})
    /\ [][\A s \in Sweepers :
             (spc[s] = "removing" /\ spc'[s] = "idle")
             => \A fp \in to_remove[s] :
                   RowsOf(index', fp) = {}
                   => Location(fp) \notin DOMAIN disk']_vars

\* the file at loc is in the next state what it is in this one
SameFile(loc) == loc \in DOMAIN disk' /\ disk'[loc] = disk[loc]

\* C26: a sweep that runs alone and asks the index at time snow removes
\* exactly the records with expires_at <= snow, and their files are gone
\* when it ends; the records with a later expires_at stay, and no step of
\* the sweep touches a file it did not select.
C26_SweepRemovesExactlyExpired ==
    /\ [][\A s \in Sweepers :
             (spc[s] = "removing" /\ spc'[s] = "idle")
             => /\ sout'[s] = "ok"
                /\ index' = {r \in index : r.expires_at > snow[s]}
                /\ \A r \in index :
                      r.expires_at <= snow[s]
                      => Location(r.filename) \notin DOMAIN disk'
                /\ \A r \in index' : r.expires_at > snow[s]]_vars
    /\ [][\A s \in Sweepers :
             spc[s] = "removing"
             => \A loc \in DOMAIN disk :
                   (\A r \in index : r.expires_at <= snow[s]
                                      => Location(r.filename) # loc)
                   => SameFile(loc)]_vars

\* a sweep at the hour has removed the file that expired at the hour and
\* its record, and has left the file that was made at the hour
C26_Witness ==
    /\ Quiet
    /\ sout[Cleaner] = "ok"
    /\ calls[Handler] = MaxOpens
    /\ outcome[Handler] = "ok"
    /\ now = SecondsPerHour
    /\ Cardinality(index) = 1
    /\ \A r \in index : r.expires_at > now /\ Exists(Location(r.filename))
    /\ Cardinality(DOMAIN disk) = 1

\* both removed_expired calls have returned or raised
BothSwept == \A s \in Sweeping : spc[s] = "idle" /\ sout[s] # "none"

\* C28: two removed_expired calls whose steps interleave in any order
\* both return without raising, and leave what one sweep leaves: no
\* expired record, no file of one, every other record and file as it was;
\* once one of them has returned, no step of the other changes disk or
\* index, which is the case of a second sweep right after a first.
C28_TwoSweepsAsOne ==
    /\ [](BothSwept
          => /\ \A s \in Sweeping : sout[s] = "ok"
             /\ \A r \in index : r.expires_at > now
             /\ \A loc \in DOMAIN disk : RecordsAt(loc) # {})
    /\ [][~NoSweepYet
           => \A r \in index :
                 r.expires_at > now
                 => /\ r \in index'
                    /\ Exists(Location(r.filename))
                       => SameFile(Location(r.filename))]_vars
    /\ [][(\E u \in Sweeping : spc[u] = "idle" /\ sout[u] = "ok")
           => disk' = disk /\ index' = index]_vars

\* both calls have returned, one of them found a file of its list already
\* removed by the other, and a file that had not expired is still there
C28_Witness ==
    /\ BothSwept
    /\ \A s \in Sweeping : sout[s] = "ok"
    /\ \E s \in Sweeping : missed[s]
    /\ index # {}
    /\ \A r \in index : Exists(Location(r.filename))

\* C29: the step of health_check that follows its SELECT leaves every file
\* with the content it has and makes no file, so that no name a caller may
\* ask open for is taken by it, and leaves the index as it is.
C29_HealthCheckChangesNothing ==
    [][(hpc = "selected" /\ hpc' = "idle")
       => /\ \A loc \in DOMAIN disk : SameFile(loc)
          /\ DOMAIN disk' = DOMAIN disk
          /\ index' = index]_vars

\* the index has a record of filename f whose expires_at has passed
ExpiredRecord(f) ==
    \E r \in RowsOf(index, join(file_directory, f)) : r.expires_at <= now

\* neither a file nor a record of filename f is left
Reclaimed(f) ==
    /\ RowsOf(index, join(file_directory, f)) = {}
    /\ ~Exists(Location(join(file_directory, f)))

\* C27: while the cleaner runs and the index is reachable, sweeps start
\* again and again, and every file with a record whose expires_at has
\* passed is in the end gone from disk and from the index.
C27_ExpiredFilesReclaimed ==
    /\ []<>(spc[Cleaner] = "removing")
    /\ \A f \in CleanerNames : ExpiredRecord(f) ~> Reclaimed(f)

\* C30: however often _start_timers is called, at most one cleaner Timer
\* waits for its interval or runs _file_cleaner.
C30_OneCleanerLoop == Cardinality(ActiveTimers) <= 1

\* _start_timers was called more than once, and the loop it started the
\* first time is at its second Timer or a later one, which sweeps
C30_Witness ==
    /\ starts = MaxStarts
    /\ started
    /\ \E i \in Timers :
          timerState[i] = "running" /\ i # 1 /\ spc[Cleaner] = "removing"

====
